---- MODULE Spec2Model ----
(***************************************************************************)
(* Model of demo/simulation/load_tester.py: the LoadTester worker pool,    *)
(* its shared semaphore, the per-request classification of _make_request,  *)
(* the aggregation loop of run() and the derived statistics of TestStats.  *)
(*                                                                         *)
(* Time is the value of time.time() in whole seconds; every event happens  *)
(* at a multiple of TickSeconds.  Rates and intervals are exact rationals  *)
(* <<numerator, denominator>> with a positive denominator.                 *)
(***************************************************************************)
EXTENDS Integers, Sequences, FiniteSets, TLC

VARIABLES
    now,              \* time.time()
    target_url,       \* LoadTester.target_url
    rps,              \* LoadTester.rps (rational)
    duration,         \* LoadTester.duration
    concurrent_limit, \* LoadTester.concurrent_limit
    sem_value,        \* LoadTester._semaphore._value
    sem_waiters,      \* LoadTester._semaphore._waiters (FIFO of workers)
    stats,            \* LoadTester.stats
    results,          \* run(): results
    original_rps,     \* run(): original_rps
    tasks,            \* run(): tasks, one record per worker coroutine
    progress_task,    \* run(): progress_task
    printed,          \* the counts printed by report_progress, in order
    run_pc,           \* position of run() / main_async()
    gather_raised,    \* run(): asyncio.gather re-raised a worker's exception
    report            \* the derived statistics read by summary()

vars == <<now, target_url, rps, duration, concurrent_limit, sem_value,
          sem_waiters, stats, results, original_rps, tasks, progress_task,
          printed, run_pc, gather_raised, report>>

config == <<target_url, duration, concurrent_limit>>

-----------------------------------------------------------------------------
(* Bounds of the model *)

TickSeconds == 15
MaxTicks == 4
MaxStartupTicks == 1
MaxResults == 2
MaxPlanRps == 520
MaxLen == 24
MaxOutcomes == 3
MaxPrints == 1
MaxLiveTicks == 12

(* Program constants *)

WorkerDivisor == 10
MaxWorkers == 50
RequestTimeout == 30
ProgressInterval == 5
StatusOK == 200

-----------------------------------------------------------------------------
(* Arithmetic helpers *)

Min(a, b) == IF a < b THEN a ELSE b

Abs(a) == IF a < 0 THEN -a ELSE a

\* int(a / b) for b > 0: truncation toward zero
Trunc(a, b) == IF a >= 0 THEN a \div b ELSE -((-a) \div b)

\* the rational a / b with its sign carried by the numerator
Rat(a, b) == IF b < 0 THEN <<-a, -b>> ELSE <<a, b>>

RatEq(p, q) == p[1] * q[2] = q[1] * p[2]

RatLe(p, q) == p[1] * q[2] <= q[1] * p[2]

RECURSIVE SumSeq(_)
SumSeq(s) == IF s = <<>> THEN 0 ELSE Head(s) + SumSeq(Tail(s))

\* sorted(latencies): the ascending arrangement of s; position k holds the
\* value with fewer than k elements below it and at least k not above it
sorted(s) ==
    LET n == Len(s)
        below(v) == Cardinality({i \in 1..n : s[i] < v})
        upto(v) == Cardinality({i \in 1..n : s[i] <= v})
    IN  [k \in 1..n |-> CHOOSE v \in {s[i] : i \in 1..n} : below(v) < k /\ k <= upto(v)]

-----------------------------------------------------------------------------
(* TestResult and TestStats *)

\* TestResult(success, latency_ms, status_code, error); `worker`, `iteration`
\* and `raised` record which attempt produced it and the exception class
\* caught ("" when a response was returned)
TestResult(success, latency_ms, status_code, error, w, i, raised) ==
    [success |-> success, latency_ms |-> latency_ms, status_code |-> status_code,
     error |-> error, worker |-> w, iteration |-> i, raised |-> raised]

EmptyMap == [k \in {} |-> 0]

\* TestStats()
NewTestStats ==
    [total_requests |-> 0, successful_requests |-> 0, failed_requests |-> 0,
     latencies |-> <<>>, errors |-> EmptyMap, start_time |-> 0, end_time |-> 0]

\* f"HTTP {result.status_code}"
HttpKey(status_code) == "HTTP " \o ToString(status_code)

\* result.error or f"HTTP {result.status_code}"
ErrorKey(result) == IF result.error # "" THEN result.error ELSE HttpKey(result.status_code)

\* errors[key] = 1: the previous count is dropped
Increment_Reset(errors, key) ==
    [k \in DOMAIN errors \cup {key} |-> IF k = key THEN 1 ELSE errors[k]]

\* errors[key] = errors.get(key, 0) + 1
Increment(errors, key) ==
    [k \in DOMAIN errors \cup {key} |->
        IF k = key THEN (IF key \in DOMAIN errors THEN errors[key] ELSE 0) + 1
        ELSE errors[k]]

\* the latency recorded for successful results only
AggregateOne_SuccessLatencies(s, result) ==
    LET counted == [s EXCEPT !.total_requests = @ + 1]
    IN  IF result.success
        THEN [counted EXCEPT !.successful_requests = @ + 1,
                             !.latencies = Append(@, result.latency_ms)]
        ELSE [counted EXCEPT !.failed_requests = @ + 1,
                             !.errors = Increment(@, ErrorKey(result))]

\* one pass of the aggregation loop body
AggregateOne(s, result) ==
    LET counted == [s EXCEPT !.total_requests = @ + 1,
                             !.latencies = Append(@, result.latency_ms)]
    IN  IF result.success
        THEN [counted EXCEPT !.successful_requests = @ + 1]
        ELSE [counted EXCEPT !.failed_requests = @ + 1,
                             !.errors = Increment(@, ErrorKey(result))]

\* for result in results[i:]: ... (the test on t makes TLC evaluate each
\* pass before the next one; a counted pass never leaves total_requests at 0)
RECURSIVE AggregateFrom(_, _, _)
AggregateFrom(s, rs, i) ==
    IF i > Len(rs) THEN s
    ELSE LET t == AggregateOne(s, rs[i])
         IN  IF t.total_requests = 0 THEN t ELSE AggregateFrom(t, rs, i + 1)

\* for result in results: ...
Aggregate(s, rs) == AggregateFrom(s, rs, 1)

\* success_rate without the guard for an empty run
success_rate_Unguarded(s) == <<s.successful_requests * 100, s.total_requests>>

\* TestStats.success_rate
success_rate(s) ==
    IF s.total_requests = 0 THEN <<0, 1>>
    ELSE <<s.successful_requests * 100, s.total_requests>>

\* TestStats.avg_latency (statistics.mean)
avg_latency(s) ==
    IF s.latencies = <<>> THEN <<0, 1>>
    ELSE <<SumSeq(s.latencies), Len(s.latencies)>>

\* statistics.median: the middle element, or the mean of the two middle ones
median(data) ==
    LET d == sorted(data)
        n == Len(d)
        i == n \div 2
    IN  IF n % 2 = 1 THEN <<d[i + 1], 1>> ELSE <<d[i] + d[i + 1], 2>>

\* TestStats.p50_latency
p50_latency(s) == IF s.latencies = <<>> THEN <<0, 1>> ELSE median(s.latencies)

\* int(len(sorted_latencies) * 0.95), int(len(sorted_latencies) * 0.99):
\* the double product truncates to floor(n * pct / 100) for every n up to
\* 200000
PercentileIndex(n, pct) == (n * pct) \div 100

\* p95 with the index rounded to nearest instead of truncated
p95_latency_Rounded(s) ==
    IF s.latencies = <<>> THEN 0
    ELSE LET sorted_latencies == sorted(s.latencies)
             idx == (Len(sorted_latencies) * 95 + 50) \div 100
         IN  sorted_latencies[Min(idx, Len(sorted_latencies) - 1) + 1]

\* TestStats.p95_latency (sequences are 1-based: list index idx is idx + 1)
p95_latency(s) ==
    IF s.latencies = <<>> THEN 0
    ELSE LET sorted_latencies == sorted(s.latencies)
             idx == PercentileIndex(Len(sorted_latencies), 95)
         IN  sorted_latencies[idx + 1]

\* TestStats.p99_latency
p99_latency(s) ==
    IF s.latencies = <<>> THEN 0
    ELSE LET sorted_latencies == sorted(s.latencies)
             idx == PercentileIndex(Len(sorted_latencies), 99)
         IN  sorted_latencies[Min(idx, Len(sorted_latencies) - 1) + 1]

\* TestStats.requests_per_second
requests_per_second(s) ==
    LET d == s.end_time - s.start_time
    IN  IF d = 0 THEN <<0, 1>> ELSE Rat(s.total_requests, d)

\* the derived fields summary() formats
Derived(s) ==
    [success_rate |-> success_rate(s), requests_per_second |-> requests_per_second(s),
     avg_latency |-> avg_latency(s), p50_latency |-> p50_latency(s),
     p95_latency |-> p95_latency(s), p99_latency |-> p99_latency(s)]

NoReport == [none |-> TRUE]

-----------------------------------------------------------------------------
(* Inputs *)

\* LoadTester(target_url, ...) arguments, as character sequences
TargetUrls == {<<"h", ":", "8", "0", "/", "/">>}

\* requests_per_second of a validated configuration
RpsValues == {<<1, 15>>, <<10, 1>>}

\* requests_per_second values a caller can pass without validation
BadRpsValues == {<<0, 1>>, <<-5, 1>>, <<-10, 1>>, <<-20, 1>>}

\* duration_seconds of a validated configuration
Durations == {TickSeconds, 2 * TickSeconds}

BadDurations == {0, -TickSeconds}

\* concurrent_limit of a validated configuration
Limits == {1, 2}

BadLimits == {0, -1}

\* response.status values of the service under test
Statuses == {StatusOK, 404}

\* exceptions session.post / response.text can raise, by class:
\* is_timeout: an asyncio.TimeoutError; is_client_error: an aiohttp.ClientError;
\* text: str(e)
Exceptions ==
    {[cls |-> "TimeoutError", is_timeout |-> TRUE, is_client_error |-> FALSE, text |-> ""],
     [cls |-> "ServerTimeoutError", is_timeout |-> TRUE, is_client_error |-> TRUE,
      text |-> "Connection timeout"],
     [cls |-> "ClientConnectorError", is_timeout |-> FALSE, is_client_error |-> TRUE,
      text |-> "Cannot connect to host"],
     [cls |-> "RuntimeError", is_timeout |-> FALSE, is_client_error |-> FALSE,
      text |-> "Session is closed"],
     [cls |-> "Exception", is_timeout |-> FALSE, is_client_error |-> FALSE, text |-> ""]}

-----------------------------------------------------------------------------
(* LoadTester.__init__ *)

\* target_url.rstrip("/")
RECURSIVE rstrip(_)
rstrip(url) ==
    IF url # <<>> /\ url[Len(url)] = "/" THEN rstrip(SubSeq(url, 1, Len(url) - 1)) ELSE url

\* a worker coroutine created by asyncio.create_task and not yet run;
\* `iterations` counts the loop iterations begun and `late` the outcomes the
\* worker appended when time.time() had reached its end_time
IdleTask ==
    [pc |-> "idle", interval |-> <<0, 1>>, end_time |-> 0, start |-> 0,
     post_start |-> 0, latency |-> 0, status |-> 0, sleep_start |-> 0,
     iterations |-> 0, late |-> 0]

NoProgressTask == [pc |-> "none", wake_at |-> 0]

\* the state after LoadTester(url, r, d, c); asyncio.Semaphore(c) raises
\* ValueError for c < 0
Construct(url, r, d, c, t) ==
    /\ now = t
    /\ target_url = rstrip(url)
    /\ rps = r
    /\ duration = d
    /\ concurrent_limit = c
    /\ stats = NewTestStats
    /\ sem_value = IF c < 0 THEN 0 ELSE c
    /\ sem_waiters = <<>>
    /\ results = <<>>
    /\ original_rps = r
    /\ tasks = <<>>
    /\ progress_task = NoProgressTask
    /\ printed = <<>>
    /\ run_pc = IF c < 0 THEN "init_raised" ELSE "init"
    /\ gather_raised = FALSE
    /\ report = NoReport

\* time.time() when the tester is constructed
StartTimes == {TickSeconds}

Init ==
    \E url \in TargetUrls, r \in RpsValues, d \in Durations, c \in Limits, t \in StartTimes :
        Construct(url, r, d, c, t)

-----------------------------------------------------------------------------
(* asyncio.Semaphore, as LoadTester._semaphore uses it *)

Workers == DOMAIN tasks

\* locked() letting one request through when no permit is left
locked_OffByOne == sem_value < 0 \/ sem_waiters # <<>>

\* Semaphore.locked(): no permit left, or somebody is already queued
locked == sem_value = 0 \/ sem_waiters # <<>>

\* position in `waiters` of the first future that is not done, or 0
RECURSIVE FirstWaiting(_, _, _)
FirstWaiting(ts, waiters, i) ==
    IF i > Len(waiters) THEN 0
    ELSE IF ts[waiters[i]].pc = "waiting" THEN i
    ELSE FirstWaiting(ts, waiters, i + 1)

\* Semaphore._wake_up_next(): hand a permit to the first waiter not yet woken
WakeUpNext(g) ==
    LET i == FirstWaiting(g.tasks, g.waiters, 1)
    IN  IF i = 0 THEN [g EXCEPT !.woke = FALSE]
        ELSE [g EXCEPT !.value = @ - 1, !.tasks[g.waiters[i]].pc = "woken", !.woke = TRUE]

\* release() that returns the permit and wakes nobody
Release_NoWake(value, ts, waiters) ==
    [value |-> value + 1, tasks |-> ts, waiters |-> waiters, woke |-> FALSE]

\* Semaphore.release()
Release(value, ts, waiters) ==
    WakeUpNext([value |-> value + 1, tasks |-> ts, waiters |-> waiters, woke |-> FALSE])

\* `while self._value > 0: if not self._wake_up_next(): break`
RECURSIVE WakeWhile(_)
WakeWhile(g) ==
    IF g.value > 0
    THEN LET h == WakeUpNext(g) IN IF h.woke THEN WakeWhile(h) ELSE h
    ELSE g

Remove(waiters, w) == SelectSeq(waiters, LAMBDA x : x # w)

-----------------------------------------------------------------------------
(* LoadTester._worker and LoadTester._make_request *)

\* the event loop runs callbacks in the order they were scheduled: the worker
\* tasks start in creation order, then report_progress, and only then are
\* timers and I/O completions delivered
Started ==
    /\ \A w \in Workers : tasks[w].pc # "idle"
    /\ progress_task.pc # "created"

\* loop iterations begun so far, over all workers
RECURSIVE SumIterations(_, _)
SumIterations(ts, n) == IF n = 0 THEN 0 ELSE ts[n].iterations + SumIterations(ts, n - 1)

TotalIterations == SumIterations(tasks, Len(tasks))

\* the loop condition relaxed by the request timeout: iterations still begin
\* for RequestTimeout seconds after end_time
Iterate_Grace(w, t) ==
    IF now < t.end_time + RequestTimeout
    THEN /\ TotalIterations < MaxResults
         /\ IF ~locked
            THEN /\ sem_value' = sem_value - 1
                 /\ tasks' = [tasks EXCEPT ![w] =
                        [t EXCEPT !.pc = "inflight", !.start = now, !.post_start = now,
                                  !.sleep_start = 0, !.iterations = @ + 1]]
                 /\ UNCHANGED sem_waiters
            ELSE /\ sem_waiters' = Append(sem_waiters, w)
                 /\ tasks' = [tasks EXCEPT ![w] =
                        [t EXCEPT !.pc = "waiting", !.start = now, !.sleep_start = 0,
                                  !.iterations = @ + 1]]
                 /\ UNCHANGED sem_value
    ELSE /\ tasks' = [tasks EXCEPT ![w] = [t EXCEPT !.pc = "stopped", !.sleep_start = 0]]
         /\ UNCHANGED <<sem_value, sem_waiters>>

\* `while time.time() < end_time:` reached by worker w with locals t; the
\* body runs without suspension up to `async with self._semaphore`
Iterate(w, t) ==
    IF now < t.end_time
    THEN /\ TotalIterations < MaxResults
         /\ IF ~locked
            THEN /\ sem_value' = sem_value - 1
                 /\ tasks' = [tasks EXCEPT ![w] =
                        [t EXCEPT !.pc = "inflight", !.start = now, !.post_start = now,
                                  !.sleep_start = 0, !.iterations = @ + 1]]
                 /\ UNCHANGED sem_waiters
            ELSE /\ sem_waiters' = Append(sem_waiters, w)
                 /\ tasks' = [tasks EXCEPT ![w] =
                        [t EXCEPT !.pc = "waiting", !.start = now, !.sleep_start = 0,
                                  !.iterations = @ + 1]]
                 /\ UNCHANGED sem_value
    ELSE /\ tasks' = [tasks EXCEPT ![w] = [t EXCEPT !.pc = "stopped", !.sleep_start = 0]]
         /\ UNCHANGED <<sem_value, sem_waiters>>

\* the worker given the deadline of the run, stats.start_time + duration,
\* instead of taking the time itself
WorkerBegin_SharedDeadline(w) ==
    /\ tasks[w].pc = "idle"
    /\ \A v \in Workers : v < w => tasks[v].pc # "idle"
    /\ IF rps[1] = 0
       THEN /\ tasks' = [tasks EXCEPT ![w].pc = "crashed"]
            /\ UNCHANGED <<sem_value, sem_waiters>>
       ELSE Iterate(w, [tasks[w] EXCEPT !.interval = Rat(rps[2], rps[1]),
                                        !.end_time = stats.start_time + duration])
    /\ UNCHANGED <<now, config, rps, stats, results, original_rps, progress_task,
                   printed, run_pc, gather_raised, report>>

\* the worker pacing itself by the aggregate rate run() saved in original_rps
WorkerBegin_AggregateRate(w) ==
    /\ tasks[w].pc = "idle"
    /\ \A v \in Workers : v < w => tasks[v].pc # "idle"
    /\ IF original_rps[1] = 0
       THEN /\ tasks' = [tasks EXCEPT ![w].pc = "crashed"]
            /\ UNCHANGED <<sem_value, sem_waiters>>
       ELSE Iterate(w, [tasks[w] EXCEPT !.interval = Rat(original_rps[2], original_rps[1]),
                                        !.end_time = now + duration])
    /\ UNCHANGED <<now, config, rps, stats, results, original_rps, progress_task,
                   printed, run_pc, gather_raised, report>>

\* the worker task runs for the first time: interval = 1.0 / self.rps raises
\* ZeroDivisionError for a zero rate
WorkerBegin(w) ==
    /\ tasks[w].pc = "idle"
    /\ \A v \in Workers : v < w => tasks[v].pc # "idle"
    /\ IF rps[1] = 0
       THEN /\ tasks' = [tasks EXCEPT ![w].pc = "crashed"]
            /\ UNCHANGED <<sem_value, sem_waiters>>
       ELSE Iterate(w, [tasks[w] EXCEPT !.interval = Rat(rps[2], rps[1]),
                                        !.end_time = now + duration])
    /\ UNCHANGED <<now, config, rps, stats, results, original_rps, progress_task,
                   printed, run_pc, gather_raised, report>>

\* a queued acquire() resumes with its permit and session.post starts
SemaphoreResume(w) ==
    /\ tasks[w].pc = "woken"
    /\ Started
    /\ LET g == WakeWhile([value |-> sem_value, tasks |-> tasks,
                           waiters |-> Remove(sem_waiters, w), woke |-> FALSE])
       IN  /\ sem_value' = g.value
           /\ sem_waiters' = g.waiters
           /\ tasks' = [g.tasks EXCEPT ![w].pc = "inflight", ![w].post_start = now]
    /\ UNCHANGED <<now, config, rps, stats, results, original_rps, progress_task,
                   printed, run_pc, gather_raised, report>>

\* the response head arrives: latency = (time.time() - start) * 1000
Respond(w, status) ==
    /\ tasks[w].pc = "inflight"
    /\ Started
    /\ now - tasks[w].post_start < RequestTimeout
    /\ tasks' = [tasks EXCEPT ![w].pc = "reading", ![w].status = status,
                              ![w].latency = (now - tasks[w].start) * 1000]
    /\ UNCHANGED <<now, config, rps, sem_value, sem_waiters, stats, results,
                   original_rps, progress_task, printed, run_pc, gather_raised, report>>

\* 1 when worker w appends now with its loop condition already false
Late(w) == IF now >= tasks[w].end_time THEN 1 ELSE 0

\* a failed request re-raised into _worker: the task dies instead of sleeping
Complete_Abort(w, result) ==
    LET g == Release(sem_value, tasks, sem_waiters)
    IN  /\ sem_value' = g.value
        /\ tasks' = [g.tasks EXCEPT ![w].pc = IF result.success THEN "sleeping" ELSE "crashed",
                                    ![w].sleep_start = now,
                                    ![w].start = 0, ![w].post_start = 0,
                                    ![w].latency = 0, ![w].status = 0,
                                    ![w].late = @ + Late(w)]
        /\ results' = Append(results, result)
        /\ UNCHANGED <<now, config, rps, sem_waiters, stats, original_rps,
                       progress_task, printed, run_pc, gather_raised, report>>

\* a failed request recorded and sent again within the same loop iteration
Complete_Retry(w, result) ==
    IF result.success \/ Len(results) >= MaxResults
    THEN LET g == Release(sem_value, tasks, sem_waiters)
         IN  /\ sem_value' = g.value
             /\ tasks' = [g.tasks EXCEPT ![w].pc = "sleeping", ![w].sleep_start = now,
                                         ![w].start = 0, ![w].post_start = 0,
                                         ![w].latency = 0, ![w].status = 0,
                                         ![w].late = @ + Late(w)]
             /\ results' = Append(results, result)
             /\ UNCHANGED <<now, config, rps, sem_waiters, stats, original_rps,
                            progress_task, printed, run_pc, gather_raised, report>>
    ELSE /\ tasks' = [tasks EXCEPT ![w].pc = "inflight", ![w].post_start = now,
                                   ![w].latency = 0, ![w].status = 0,
                                   ![w].late = @ + Late(w)]
         /\ results' = Append(results, result)
         /\ UNCHANGED <<now, config, rps, sem_value, sem_waiters, stats, original_rps,
                        progress_task, printed, run_pc, gather_raised, report>>

\* the result put at the front of the list instead of appended
Complete_Prepend(w, result) ==
    LET g == Release(sem_value, tasks, sem_waiters)
    IN  /\ sem_value' = g.value
        /\ tasks' = [g.tasks EXCEPT ![w].pc = "sleeping", ![w].sleep_start = now,
                                    ![w].start = 0, ![w].post_start = 0,
                                    ![w].latency = 0, ![w].status = 0,
                                    ![w].late = @ + Late(w)]
        /\ results' = <<result>> \o results
        /\ UNCHANGED <<now, config, rps, sem_waiters, stats, original_rps,
                       progress_task, printed, run_pc, gather_raised, report>>

\* the permit given back only on the path that returns a response
Complete_Leak(w, result) ==
    LET g == IF result.raised = "" THEN Release(sem_value, tasks, sem_waiters)
             ELSE [value |-> sem_value, tasks |-> tasks, waiters |-> sem_waiters,
                   woke |-> FALSE]
    IN  /\ sem_value' = g.value
        /\ tasks' = [g.tasks EXCEPT ![w].pc = "sleeping", ![w].sleep_start = now,
                                    ![w].start = 0, ![w].post_start = 0,
                                    ![w].latency = 0, ![w].status = 0,
                                    ![w].late = @ + Late(w)]
        /\ results' = Append(results, result)
        /\ UNCHANGED <<now, config, rps, sem_waiters, stats, original_rps,
                       progress_task, printed, run_pc, gather_raised, report>>

\* _make_request returns `result` to _worker: the semaphore is released, the
\* result appended and the worker suspends in asyncio.sleep(interval)
Complete(w, result) ==
    LET g == Release(sem_value, tasks, sem_waiters)
    IN  /\ sem_value' = g.value
        /\ tasks' = [g.tasks EXCEPT ![w].pc = "sleeping", ![w].sleep_start = now,
                                    ![w].start = 0, ![w].post_start = 0,
                                    ![w].latency = 0, ![w].status = 0,
                                    ![w].late = @ + Late(w)]
        /\ results' = Append(results, result)
        /\ UNCHANGED <<now, config, rps, sem_waiters, stats, original_rps,
                       progress_task, printed, run_pc, gather_raised, report>>

\* every response counted as a success, whatever its status
Returned_AnyStatus(status, latency_ms, w, i) ==
    TestResult(TRUE, latency_ms, status, "", w, i, "")

\* return TestResult(success=response.status == 200, latency_ms=latency,
\*                   status_code=response.status)
Returned(status, latency_ms, w, i) ==
    TestResult(status = StatusOK, latency_ms, status, "", w, i, "")

\* the TestResult built once response.text() has returned
Responded(w) == Returned(tasks[w].status, tasks[w].latency, w, tasks[w].iterations)

\* await response.text() returns
ReadBody(w) ==
    /\ tasks[w].pc = "reading"
    /\ Started
    /\ now - tasks[w].post_start < RequestTimeout
    /\ Complete(w, Responded(w))

\* the except clauses with aiohttp.ClientError tried before asyncio.TimeoutError
Caught_ClientErrorFirst(e, latency_ms, w, i) ==
    IF e.is_client_error
    THEN TestResult(FALSE, latency_ms, 0, e.cls, w, i, e.cls)
    ELSE IF e.is_timeout
    THEN TestResult(FALSE, latency_ms, 0, "timeout", w, i, e.cls)
    ELSE TestResult(FALSE, latency_ms, 0, e.text, w, i, e.cls)

\* the except clauses of _make_request, in order
Caught(e, latency_ms, w, i) ==
    IF e.is_timeout
    THEN TestResult(FALSE, latency_ms, 0, "timeout", w, i, e.cls)
    ELSE IF e.is_client_error
    THEN TestResult(FALSE, latency_ms, 0, e.cls, w, i, e.cls)
    ELSE TestResult(FALSE, latency_ms, 0, e.text, w, i, e.cls)

\* the TestResult of a request that raised e: latency_ms is taken in the handler
Classify(w, e) == Caught(e, (now - tasks[w].start) * 1000, w, tasks[w].iterations)

\* session.post or response.text() raises e; a timeout is raised once
\* ClientTimeout(total=30) has elapsed
Raise(w, e) ==
    /\ tasks[w].pc \in {"inflight", "reading"}
    /\ e.is_timeout <=> now - tasks[w].post_start >= RequestTimeout
    /\ e.is_timeout => Started
    /\ Complete(w, Classify(w, e))

\* asyncio.sleep(interval) returns and the loop condition is evaluated
SleepWake(w) ==
    /\ tasks[w].pc = "sleeping"
    /\ Started
    /\ (now - tasks[w].sleep_start) * tasks[w].interval[2] >= tasks[w].interval[1]
    /\ Iterate(w, tasks[w])
    /\ UNCHANGED <<now, config, rps, stats, results, original_rps, progress_task,
                   printed, run_pc, gather_raised, report>>

-----------------------------------------------------------------------------
(* LoadTester.run, report_progress and main_async *)

\* the worker count without the + 1
num_workers_Floor(r) == Min(Trunc(r[1], r[2] * WorkerDivisor), MaxWorkers)

\* min(int(self.rps / 10) + 1, 50)
num_workers(r) == Min(Trunc(r[1], r[2] * WorkerDivisor) + 1, MaxWorkers)

\* self.rps / num_workers
worker_rps(r, n) == Rat(r[1], r[2] * n)

\* [asyncio.create_task(self._worker(session, results)) for _ in range(n)]
CreateTasks(n) == [w \in 1..n |-> IdleTask]

\* run() up to `await asyncio.gather(*tasks)`; self.rps / 0 raises
\* ZeroDivisionError before any task is created
RunStart ==
    /\ run_pc = "init"
    /\ results' = <<>>
    /\ stats' = [NewTestStats EXCEPT !.start_time = now]
    /\ LET n == num_workers(rps)
       IN  IF n = 0
           THEN /\ run_pc' = "raised"
                /\ UNCHANGED <<rps, original_rps, tasks, progress_task>>
           ELSE /\ original_rps' = rps
                /\ rps' = worker_rps(rps, n)
                /\ tasks' = CreateTasks(n)
                /\ progress_task' = [pc |-> "created", wake_at |-> 0]
                /\ run_pc' = "gather"
    /\ UNCHANGED <<now, config, sem_value, sem_waiters, printed, gather_raised, report>>

\* report_progress runs for the first time: await asyncio.sleep(5)
ProgressBegin ==
    /\ progress_task.pc = "created"
    /\ \A w \in Workers : tasks[w].pc # "idle"
    /\ progress_task' = [pc |-> "sleeping", wake_at |-> now + ProgressInterval]
    /\ UNCHANGED <<now, config, rps, sem_value, sem_waiters, stats, results,
                   original_rps, tasks, printed, run_pc, gather_raised, report>>

\* print(f"Progress: {len(results)} requests sent...") and sleep again
ProgressPrint ==
    /\ progress_task.pc = "sleeping"
    /\ now >= progress_task.wake_at
    /\ Len(printed) < MaxPrints
    /\ printed' = Append(printed, Len(results))
    /\ progress_task' = [pc |-> "sleeping", wake_at |-> now + ProgressInterval]
    /\ UNCHANGED <<now, config, rps, sem_value, sem_waiters, stats, results,
                   original_rps, tasks, run_pc, gather_raised, report>>

\* gather awaited without try/finally: a worker exception leaves run() at
\* once and report_progress is never cancelled
RunGatherDone_NoFinally ==
    /\ run_pc = "gather"
    /\ Workers = {} \/ Started
    /\ \/ \E w \in Workers : tasks[w].pc = "crashed"
       \/ \A w \in Workers : tasks[w].pc = "stopped"
    /\ gather_raised' = (\E w \in Workers : tasks[w].pc = "crashed")
    /\ IF gather_raised'
       THEN /\ run_pc' = "raised"
            /\ UNCHANGED progress_task
       ELSE /\ progress_task' = [progress_task EXCEPT !.pc = "cancelling"]
            /\ run_pc' = "finally"
    /\ UNCHANGED <<now, config, rps, sem_value, sem_waiters, stats, results,
                   original_rps, tasks, printed, report>>

\* gather replaced by a wait for the first worker to finish
RunGatherDone_FirstCompleted ==
    /\ run_pc = "gather"
    /\ Workers = {} \/ Started
    /\ \/ \E w \in Workers : tasks[w].pc = "crashed"
       \/ \E w \in Workers : tasks[w].pc = "stopped"
    /\ gather_raised' = (\E w \in Workers : tasks[w].pc = "crashed")
    /\ progress_task' = [progress_task EXCEPT !.pc = "cancelling"]
    /\ run_pc' = "finally"
    /\ UNCHANGED <<now, config, rps, sem_value, sem_waiters, stats, results,
                   original_rps, tasks, printed, report>>

\* asyncio.gather returns once every worker is done, or raises the first
\* worker exception; finally: progress_task.cancel(); await progress_task
RunGatherDone ==
    /\ run_pc = "gather"
    /\ Workers = {} \/ Started
    /\ \/ \E w \in Workers : tasks[w].pc = "crashed"
       \/ \A w \in Workers : tasks[w].pc = "stopped"
    /\ gather_raised' = (\E w \in Workers : tasks[w].pc = "crashed")
    /\ progress_task' = [progress_task EXCEPT !.pc = "cancelling"]
    /\ run_pc' = "finally"
    /\ UNCHANGED <<now, config, rps, sem_value, sem_waiters, stats, results,
                   original_rps, tasks, printed, report>>

\* CancelledError is thrown into report_progress
ProgressCancelled ==
    /\ progress_task.pc = "cancelling"
    /\ progress_task' = [progress_task EXCEPT !.pc = "cancelled"]
    /\ UNCHANGED <<now, config, rps, sem_value, sem_waiters, stats, results,
                   original_rps, tasks, printed, run_pc, gather_raised, report>>

\* run() without `self.rps = original_rps`
RunFinish_NoRestore ==
    /\ run_pc = "finally"
    /\ progress_task.pc = "cancelled"
    /\ IF gather_raised
       THEN /\ run_pc' = "raised"
            /\ UNCHANGED stats
       ELSE /\ stats' = Aggregate([stats EXCEPT !.end_time = now], results)
            /\ run_pc' = "returned"
    /\ UNCHANGED <<now, config, rps, sem_value, sem_waiters, results, original_rps,
                   tasks, progress_task, printed, gather_raised, report>>

\* run() after `await progress_task`: the worker exception propagates, or
\* self.rps is restored, end_time taken and the results aggregated
RunFinish ==
    /\ run_pc = "finally"
    /\ progress_task.pc = "cancelled"
    /\ IF gather_raised
       THEN /\ run_pc' = "raised"
            /\ UNCHANGED <<rps, stats>>
       ELSE /\ rps' = original_rps
            /\ stats' = Aggregate([stats EXCEPT !.end_time = now], results)
            /\ run_pc' = "returned"
    /\ UNCHANGED <<now, config, sem_value, sem_waiters, results, original_rps,
                   tasks, progress_task, printed, gather_raised, report>>

\* main_async: print(stats.summary())
Summary ==
    /\ run_pc = "returned"
    /\ report' = Derived(stats)
    /\ run_pc' = "reported"
    /\ UNCHANGED <<now, config, rps, sem_value, sem_waiters, stats, results,
                   original_rps, tasks, progress_task, printed, gather_raised>>

\* the timer of report_progress has expired and its line is still to print;
\* the event loop runs an expired timer before the clock moves a whole tick
ProgressDue ==
    /\ progress_task.pc = "sleeping"
    /\ now >= progress_task.wake_at
    /\ Len(printed) < MaxPrints

\* some coroutine is still waiting on the clock
Pending ==
    \/ run_pc \in {"gather", "finally"}
    \/ progress_task.pc \in {"created", "sleeping", "cancelling"}

\* time passes
Tick ==
    /\ Pending
    /\ now + TickSeconds <= MaxTicks * TickSeconds
    /\ ~ProgressDue
    /\ ~Started => now + TickSeconds <= stats.start_time + MaxStartupTicks * TickSeconds
    /\ now' = now + TickSeconds
    /\ UNCHANGED <<config, rps, sem_value, sem_waiters, stats, results, original_rps,
                   tasks, progress_task, printed, run_pc, gather_raised, report>>

Next ==
    \/ RunStart
    \/ \E w \in Workers : WorkerBegin(w)
    \/ \E w \in Workers : SemaphoreResume(w)
    \/ \E w \in Workers, status \in Statuses : Respond(w, status)
    \/ \E w \in Workers : ReadBody(w)
    \/ \E w \in Workers, e \in Exceptions : Raise(w, e)
    \/ \E w \in Workers : SleepWake(w)
    \/ ProgressBegin
    \/ ProgressPrint
    \/ RunGatherDone
    \/ ProgressCancelled
    \/ RunFinish
    \/ Summary
    \/ Tick

Spec == Init /\ [][Next]_vars

-----------------------------------------------------------------------------
(* The run under the scheduling of the asyncio event loop: a task that is     *)
(* ready to run, and a timer that has expired, are served before the loop    *)
(* waits again, so the clock does not pass them; time always goes on and a   *)
(* request that gets no response is ended by ClientTimeout(total=30).        *)

\* asyncio.sleep(interval) of worker w has expired and its loop can go on
TimerDue(w) ==
    /\ tasks[w].pc = "sleeping"
    /\ (now - tasks[w].sleep_start) * tasks[w].interval[2] >= tasks[w].interval[1]
    /\ now >= tasks[w].end_time \/ TotalIterations < MaxResults

\* the total timeout of worker w's request has expired
TimeoutDue(w) ==
    /\ tasks[w].pc \in {"inflight", "reading"}
    /\ now - tasks[w].post_start >= RequestTimeout

\* some task is scheduled to run now
Runnable ==
    \/ \E w \in Workers : tasks[w].pc = "woken" \/ TimerDue(w) \/ TimeoutDue(w)
    \/ progress_task.pc = "cancelling"
    \/ run_pc = "finally"
    \/ run_pc = "gather" /\ Workers # {} /\ \A w \in Workers : tasks[w].pc \in {"stopped", "crashed"}

\* time passes while the event loop has nothing to run
TickLive ==
    /\ Pending
    /\ now + TickSeconds <= MaxLiveTicks * TickSeconds
    /\ ~ProgressDue
    /\ ~Started => now + TickSeconds <= stats.start_time + MaxStartupTicks * TickSeconds
    /\ Started => ~Runnable
    /\ now' = now + TickSeconds
    /\ UNCHANGED <<config, rps, sem_value, sem_waiters, stats, results, original_rps,
                   tasks, progress_task, printed, run_pc, gather_raised, report>>

\* ClientTimeout(total=30) ends the request of worker w
Timeout(w) == \E e \in Exceptions : e.is_timeout /\ Raise(w, e)

\* the steps of run(), of the workers and of report_progress that need no
\* event from the network
Steps ==
    \/ RunStart
    \/ \E w \in Workers : WorkerBegin(w)
    \/ \E w \in Workers : SemaphoreResume(w)
    \/ \E w \in Workers : SleepWake(w)
    \/ ProgressBegin
    \/ ProgressPrint
    \/ RunGatherDone
    \/ ProgressCancelled
    \/ RunFinish
    \/ Summary

NextLive ==
    \/ Steps
    \/ \E w \in Workers, status \in Statuses : Respond(w, status)
    \/ \E w \in Workers : ReadBody(w)
    \/ \E w \in Workers, e \in Exceptions : Raise(w, e)
    \/ TickLive

\* the limit under which two workers contend for the permit
LiveLimits == {1}

InitLive ==
    \E url \in TargetUrls, r \in RpsValues, d \in Durations, c \in LiveLimits, t \in StartTimes :
        Construct(url, r, d, c, t)

SpecLive ==
    /\ InitLive
    /\ [][NextLive]_vars
    /\ WF_vars(Steps)
    /\ WF_vars(\E w \in Workers : Timeout(w))
    /\ WF_vars(TickLive)

-----------------------------------------------------------------------------
(* The tester constructed from unvalidated caller input, as main_async does *)

InitUnvalidated ==
    \E url \in TargetUrls, r \in RpsValues \cup BadRpsValues,
       d \in Durations \cup BadDurations, c \in Limits \cup BadLimits, t \in StartTimes :
        Construct(url, r, d, c, t)

SpecUnvalidated == InitUnvalidated /\ [][Next]_vars

-----------------------------------------------------------------------------
(* run() at its aggregation loop, for collections of outcomes drawn directly *)

\* lengths at which int(len * 0.99) falls below len - 1
LongLens == {100, 101, 102}

\* an unsorted latency sample with repeated values
LatencySample(n, a, b, m) == [i \in 1..n |-> ((i * a + b) % m) * 1000]

LatencySamples ==
    {LatencySample(n, a, b, m) :
        n \in (0..MaxLen) \cup LongLens, a \in {1, 3, 7}, b \in {0, 1}, m \in {2, 5, 103}}

\* successful outcomes with the latencies `lat`
Successes(lat) == [i \in 1..Len(lat) |-> Returned(StatusOK, lat[i], 1, i)]

\* what request i of one worker can produce: a response with a status, or a
\* caught exception
Outcomes(latency_ms, i) ==
    {Returned(status, latency_ms, 1, i) : status \in Statuses}
        \cup {Caught(e, latency_ms, 1, i) : e \in Exceptions}

RECURSIVE OutcomeSeqs(_)
OutcomeSeqs(n) ==
    IF n = 0 THEN {<<>>}
    ELSE LET shorter == OutcomeSeqs(n - 1)
         IN  shorter \cup
             UNION {{Append(rs, o) : o \in Outcomes((n - 1) * TickSeconds * 1000, n)} :
                        rs \in {x \in shorter : Len(x) = n - 1}}

\* run() resumed from `await progress_task` with the workers done and `rs`
\* collected
Collected(rs) ==
    /\ now = 2 * TickSeconds
    /\ target_url = <<"h">>
    /\ rps = <<1, TickSeconds>>
    /\ duration = TickSeconds
    /\ concurrent_limit = 1
    /\ stats = [NewTestStats EXCEPT !.start_time = TickSeconds]
    /\ sem_value = 1
    /\ sem_waiters = <<>>
    /\ results = rs
    /\ original_rps = <<1, TickSeconds>>
    /\ tasks = <<[IdleTask EXCEPT !.pc = "stopped", !.interval = <<TickSeconds, 1>>,
                                  !.end_time = 2 * TickSeconds, !.iterations = Len(rs)]>>
    /\ progress_task = [pc |-> "cancelled", wake_at |-> TickSeconds + ProgressInterval]
    /\ printed = <<>>
    /\ run_pc = "finally"
    /\ gather_raised = FALSE
    /\ report = NoReport

InitAggregate ==
    \E rs \in OutcomeSeqs(MaxOutcomes) \cup {Successes(lat) : lat \in LatencySamples} :
        Collected(rs)

NextAggregate == RunFinish \/ Summary

SpecAggregate == InitAggregate /\ [][NextAggregate]_vars

-----------------------------------------------------------------------------
(* run() up to the creation of the worker tasks, for every target rate *)

PlanDenominators == {1, 3}

InitPlan ==
    \E n \in 1..MaxPlanRps, d \in PlanDenominators, url \in TargetUrls :
        Construct(url, <<n, d>>, TickSeconds, 1, TickSeconds)

NextPlan == RunStart

SpecPlan == InitPlan /\ [][NextPlan]_vars

-----------------------------------------------------------------------------
(* Properties *)

Finished == run_pc \in {"returned", "reported"}

\* workers holding a permit of the shared semaphore: acquired and not released
InFlight == {w \in Workers : tasks[w].pc \in {"woken", "inflight", "reading"}}

\* workers inside _make_request
Outstanding == {w \in Workers : tasks[w].pc \in {"waiting", "woken", "inflight", "reading"}}

\* C1: in every reachable state of a run the number of requests in flight
\* (workers between acquiring and releasing the shared semaphore) is at most
\* concurrent_limit, whatever the number of workers and their interleaving
C1_InFlightWithinLimit == Cardinality(InFlight) <= concurrent_limit

\* two workers, one permit: one request in flight and the other worker queued
C1_Witness ==
    /\ Cardinality(InFlight) = concurrent_limit
    /\ \E w \in Workers : tasks[w].pc = "waiting"

\* C2: for a target rate R > 0 run() creates exactly min(floor(R / 10) + 1, 50)
\* worker tasks, between 1 and 50, each reading the rate R / worker_count, so
\* that the per-worker rates sum to R
C2_WorkerPlan ==
    run_pc = "gather" =>
        LET R == original_rps
            n == Len(tasks)
        IN  /\ R[1] > 0
            /\ n = Min((R[1] \div (R[2] * 10)) + 1, 50)
            /\ n >= 1 /\ n <= 50
            /\ \A w \in 1..n : tasks[w].pc = "idle"
            /\ RatEq(rps, <<R[1], R[2] * n>>)
            /\ RatEq(<<n * rps[1], rps[2]>>, R)

\* a rate above 490: the cap of 50 workers decides the count
C2_Witness ==
    /\ run_pc = "gather"
    /\ Len(tasks) = 50
    /\ (original_rps[1] \div (original_rps[2] * 10)) + 1 > 50

\* the element of rank idx (from 0) in ascending order, found by counting
RankAt(lat, idx) ==
    CHOOSE v \in {lat[i] : i \in 1..Len(lat)} :
        /\ Cardinality({i \in 1..Len(lat) : lat[i] < v}) <= idx
        /\ idx < Cardinality({i \in 1..Len(lat) : lat[i] <= v})

\* nearest rank with truncation: sorted(lat)[floor(len * pct / 100)], clamped
NearestRank(lat, pct) == RankAt(lat, Min((Len(lat) * pct) \div 100, Len(lat) - 1))

RECURSIVE SumCounts(_)
SumCounts(errors) ==
    IF DOMAIN errors = {} THEN 0
    ELSE LET k == CHOOSE x \in DOMAIN errors : TRUE
         IN  errors[k] + SumCounts([x \in DOMAIN errors \ {k} |-> errors[x]])

\* C4: once run() has aggregated a collection of outcomes, the counts of the
\* errors map sum to failed_requests
C4_ErrorCountsSum == Finished => SumCounts(stats.errors) = stats.failed_requests

\* three failures under two keys, one key counted twice
C4_Witness ==
    /\ run_pc = "returned"
    /\ stats.failed_requests = 3
    /\ Cardinality(DOMAIN stats.errors) = 2

\* outcomes of responses received without an exception, per status
ResponsesWith(status) ==
    {i \in 1..Len(results) : results[i].raised = "" /\ results[i].status_code = status}

CountAt(errors, key) == IF key \in DOMAIN errors THEN errors[key] ELSE 0

\* C5: a response received without an exception gives success exactly for
\* status 200; a non-200 response gives success = false with an empty error and
\* is counted under "HTTP {status}" ("HTTP 404" for 404), under no other key
C5_StatusClassification ==
    /\ \A i \in 1..Len(results) :
          results[i].raised = "" =>
              /\ results[i].success <=> results[i].status_code = 200
              /\ results[i].status_code # 200 => results[i].error = ""
    /\ Finished =>
          /\ CountAt(stats.errors, "HTTP 404") = Cardinality(ResponsesWith(404))
          /\ \A status \in Statuses \ {200} :
                CountAt(stats.errors, "HTTP " \o ToString(status))
                    = Cardinality(ResponsesWith(status))
          /\ SumCounts(stats.errors) = Cardinality({i \in 1..Len(results) : ~results[i].success})

\* a run that returned with a 404 response counted under "HTTP 404"
C5_Witness ==
    /\ run_pc = "returned"
    /\ ResponsesWith(404) # {}
    /\ "HTTP 404" \in DOMAIN stats.errors
\* this step appends a failed outcome of worker w
RecordsFailure(w) ==
    /\ Len(results') = Len(results) + 1
    /\ results'[Len(results')].worker = w
    /\ ~results'[Len(results')].success

\* the step leaves worker v as it was, or only hands it the released permit
Undisturbed(v) ==
    \/ tasks'[v] = tasks[v]
    \/ tasks[v].pc = "waiting" /\ tasks'[v] = [tasks[v] EXCEPT !.pc = "woken"]

\* C6: a failed request of any kind is recorded as one failed outcome and
\* aborts nothing: the worker goes on to its pacing sleep and leaves its loop
\* only at its deadline, the other workers are untouched, no worker task dies
\* and run() does not raise
C6_FailuresNotFatal ==
    [][/\ \A w \in Workers :
             RecordsFailure(w) =>
                 /\ tasks'[w].pc = "sleeping"
                 /\ run_pc' = "gather"
                 /\ \A v \in Workers \ {w} : Undisturbed(v)
       /\ \A w \in Workers :
             (tasks[w].pc # "stopped" /\ tasks'[w].pc = "stopped") =>
                 now >= tasks'[w].end_time
       /\ \A w \in DOMAIN tasks' : tasks'[w].pc # "crashed"
       /\ run_pc' # "raised"]_vars

\* a worker whose request failed has begun a later iteration
C6_Witness ==
    \E i \in 1..Len(results) :
        /\ ~results[i].success
        /\ tasks[results[i].worker].iterations > results[i].iteration

\* C7: every loop iteration produces exactly one outcome and nothing is sent
\* twice: the outcomes collected plus the requests still outstanding equal the
\* iterations begun, no iteration has two outcomes, and when run() returns the
\* outcomes (and total_requests) equal the iterations of all workers
C7_OneOutcomePerIteration ==
    /\ Len(results) + Cardinality(Outstanding) = TotalIterations
    /\ \A i, j \in 1..Len(results) :
          (results[i].worker = results[j].worker
              /\ results[i].iteration = results[j].iteration) => i = j
    /\ \A i \in 1..Len(results) :
          /\ results[i].worker \in Workers
          /\ results[i].iteration \in 1..tasks[results[i].worker].iterations
    /\ Finished =>
          /\ Len(results) = TotalIterations
          /\ stats.total_requests = TotalIterations

\* a run that returned with a success and a failure collected
C7_Witness ==
    /\ run_pc = "returned"
    /\ \E i, j \in 1..Len(results) : results[i].success /\ ~results[j].success

\* the configuration the caller asked for
ValidConfig == original_rps[1] > 0 /\ duration > 0 /\ concurrent_limit > 0

\* C8: a configuration with target_rps <= 0, duration_seconds <= 0 or
\* concurrency_limit <= 0 is rejected before any worker starts and before any
\* request is issued
C8_InvalidConfigRejected ==
    ~ValidConfig =>
        /\ \A w \in Workers : tasks[w].pc = "idle"
        /\ TotalIterations = 0

\* exception classes that are an asyncio.TimeoutError
TimeoutClasses == {e.cls : e \in {x \in Exceptions : x.is_timeout}}

AllTimedOut == \A i \in 1..Len(results) : results[i].raised \in TimeoutClasses

\* C9: when every request of a run timed out, the run ends with
\* failed_requests = total_requests, no success and the errors map
\* {"timeout": total_requests}
C9_AllTimeouts ==
    (Finished /\ AllTimedOut) =>
        /\ stats.failed_requests = stats.total_requests
        /\ stats.successful_requests = 0
        /\ stats.total_requests = Len(results)
        /\ stats.errors = [k \in {"timeout"} |-> stats.total_requests]

\* a returned run whose requests all timed out, one of them with an exception
\* that is also an aiohttp.ClientError
C9_Witness ==
    /\ run_pc = "returned"
    /\ results # <<>>
    /\ AllTimedOut
    /\ \E i \in 1..Len(results) : results[i].raised = "ServerTimeoutError"

\* C10: the success rate of every aggregated result is a number from 0 to
\* 100, and it is 0 when total_requests is 0
C10_SuccessRateRange ==
    run_pc = "reported" =>
        LET rate == report.success_rate
        IN  /\ rate[2] > 0
            /\ RatLe(<<0, 1>>, rate)
            /\ RatLe(rate, <<100, 1>>)
            /\ stats.total_requests = 0 => rate[1] = 0

\* a report over successes and failures: a rate strictly between 0 and 100
C10_Witness ==
    /\ run_pc = "reported"
    /\ stats.successful_requests > 0
    /\ stats.failed_requests > 0
    /\ ~RatLe(report.success_rate, <<0, 1>>)
    /\ ~RatLe(<<100, 1>>, report.success_rate)

\* run() has been left, by return or by an exception
RunLeft == run_pc \in {"returned", "reported", "raised"}

\* C11: report_progress is cancelled when gather is over and the cancellation
\* is awaited inside run(): once run() has been left, by return or because a
\* worker raised, the reporter is cancelled and prints nothing more, and run()
\* raises only what a worker or its own arithmetic raised, never the
\* reporter's CancelledError
C11_ReporterCancelled ==
    /\ [](RunLeft => progress_task.pc \in {"none", "cancelled"})
    /\ [](run_pc = "raised" => (gather_raised \/ tasks = <<>>))
    /\ []((run_pc = "finally" /\ progress_task.pc = "cancelled" /\ ~gather_raised)
              => ENABLED RunFinish)
    /\ [][/\ RunLeft => printed' = printed
          /\ progress_task.pc \in {"cancelling", "cancelled"} => printed' = printed
          /\ (run_pc = "finally" /\ run_pc' # "finally") =>
                 (run_pc' = IF gather_raised THEN "raised" ELSE "returned")]_vars

\* a worker raised after the reporter had printed: run() re-raises the
\* worker's exception with the reporter cancelled
C11_Witness ==
    /\ run_pc = "raised"
    /\ gather_raised
    /\ printed # <<>>
    /\ progress_task.pc = "cancelled"

\* run() is past `await asyncio.gather(*tasks)`
PastGather == run_pc \in {"finally", "returned", "reported"}

\* C12: run() waits for every worker: the reporter is cancelled and the
\* results are aggregated only when all workers have left their loop, nothing
\* is appended to results from then on, and total_requests counts every
\* outcome of the run
C12_JoinBeforeAggregate ==
    /\ []((PastGather \/ progress_task.pc \in {"cancelling", "cancelled"})
              => \A w \in Workers : tasks[w].pc = "stopped")
    /\ [](Finished => stats.total_requests = Len(results))
    /\ [][PastGather => (results' = results /\ tasks' = tasks)]_vars

\* a returned run of two workers with an outcome of each
C12_Witness ==
    /\ run_pc = "returned"
    /\ Len(tasks) = 2
    /\ \A w \in Workers : \E i \in 1..Len(results) : results[i].worker = w
    /\ stats.total_requests = 2

\* C13: a worker begins a loop iteration only while time.time() < end_time and
\* re-checks after every append and sleep, so at most one of its outcomes is
\* appended when its deadline has passed
C13_OneLateOutcome ==
    /\ [](\A w \in Workers : tasks[w].late <= 1)
    /\ [][\A w \in Workers :
             tasks'[w].iterations > tasks[w].iterations =>
                 /\ now < tasks'[w].end_time
                 /\ tasks[w].pc \in {"idle", "sleeping"}
                 /\ tasks[w].late = 0]_vars

\* a worker whose second request was answered after its deadline, and which
\* then left its loop
C13_Witness ==
    \E w \in Workers :
        /\ tasks[w].pc = "stopped"
        /\ tasks[w].iterations = 2
        /\ tasks[w].late = 1

\* workers whose task has computed its interval and end_time
Begun == {w \in Workers : tasks[w].pc \notin {"idle", "crashed"}}

\* C14 as stated: all workers of a run have the same deadline, the recorded
\* start_time of the run plus duration_seconds, whenever their tasks begin
C14_SharedDeadline ==
    \A w \in Begun :
        /\ tasks[w].end_time = stats.start_time + duration
        /\ \A v \in Begun : tasks[v].end_time = tasks[w].end_time

\* C14, amended: each worker takes its own deadline when its task begins, the
\* time of that moment plus duration_seconds, and keeps it; the deadline is
\* never before start_time + duration_seconds and a worker created later has
\* no earlier deadline
C14_OwnDeadline ==
    /\ [](\A w \in Begun :
              /\ tasks[w].end_time >= stats.start_time + duration
              /\ \A v \in Begun : v < w => tasks[v].end_time <= tasks[w].end_time)
    /\ [][\A w \in Workers :
             /\ (tasks[w].pc = "idle" /\ tasks'[w].pc \notin {"idle", "crashed"})
                    => tasks'[w].end_time = now + duration
             /\ tasks[w].pc # "idle" => tasks'[w].end_time = tasks[w].end_time]_vars

\* two workers of one run with different deadlines
C14_Witness ==
    /\ Len(tasks) = 2
    /\ Begun = Workers
    /\ tasks[1].end_time = stats.start_time + duration
    /\ tasks[2].end_time > tasks[1].end_time

\* positions in results of the outcomes of worker w
OutcomesOf(w) == {i \in 1..Len(results) : results[i].worker = w}

C16_RunTerminates ==
    /\ <>(Finished /\ Workers # {} /\ \A w \in Workers : tasks[w].pc = "stopped")
    /\ [][\A w \in Workers :
             (tasks[w].pc # "stopped" /\ tasks'[w].pc = "stopped") =>
                 /\ tasks[w].pc \in {"idle", "sleeping"}
                 /\ now >= tasks'[w].end_time]_vars
    /\ [](\A w \in Workers : tasks[w].pc # "crashed")

\* a returned run in which a worker waited for the one permit while the
\* request holding it ran into its timeout
C16_Witness ==
    /\ run_pc = "returned"
    /\ concurrent_limit = 1
    /\ Len(tasks) = 2
    /\ \E i, j \in 1..Len(results) :
          /\ results[i].error = "timeout"
          /\ results[j].worker # results[i].worker
          /\ results[j].latency_ms >= RequestTimeout * 1000

\* C17: every permit _make_request acquires is released on every exit path:
\* the free permits plus the permits held always make concurrent_limit, so with
\* no request in flight, and when run() returns, the semaphore is back at
\* concurrent_limit with nobody queued
C17_PermitsReleased ==
    /\ sem_value >= 0
    /\ sem_value + Cardinality(InFlight) = concurrent_limit
    /\ InFlight = {} => sem_value = concurrent_limit
    /\ Finished => (sem_value = concurrent_limit /\ sem_waiters = <<>>)

\* a returned run whose requests failed by a timeout and by an unexpected
\* exception, with all permits back
C17_Witness ==
    /\ run_pc = "returned"
    /\ sem_value = concurrent_limit
    /\ \E i, j \in 1..Len(results) :
          /\ results[i].error = "timeout"
          /\ results[j].raised = "RuntimeError"

\* C18: every worker takes its interval from the per-worker rate
\* target_rps / worker_count: as long as a worker task has still to read
\* self.rps, run() is waiting in gather with the field overridden, and the
\* interval of every worker that has read it is worker_count / target_rps
C18_PerWorkerInterval ==
    /\ (\E w \in Workers : tasks[w].pc = "idle") =>
           /\ run_pc = "gather"
           /\ RatEq(rps, <<original_rps[1], original_rps[2] * Len(tasks)>>)
    /\ \A w \in Begun :
           /\ RatEq(tasks[w].interval, <<original_rps[2] * Len(tasks), original_rps[1]>>)
           /\ Len(tasks) > 1 =>
                  ~RatEq(tasks[w].interval, <<original_rps[2], original_rps[1]>>)

\* two workers that have both taken their interval from the overridden rate,
\* which differs from the aggregate rate
C18_Witness ==
    /\ Len(tasks) = 2
    /\ Begun = Workers
    /\ ~RatEq(rps, original_rps)
    /\ \A w \in Workers : RatEq(tasks[w].interval, <<rps[2], rps[1]>>)

\* C19: after aggregation total_requests = successful_requests +
\* failed_requests = len(latencies) = the number of outcomes collected, and
\* latencies[i] is the latency of the i-th collected outcome
C19_CountsAndLatencies ==
    Finished =>
        /\ stats.total_requests = stats.successful_requests + stats.failed_requests
        /\ stats.total_requests = Len(stats.latencies)
        /\ stats.total_requests = Len(results)
        /\ stats.successful_requests = Cardinality({i \in 1..Len(results) : results[i].success})
        /\ \A i \in 1..Len(results) : stats.latencies[i] = results[i].latency_ms

\* three outcomes, successes and failures, with different latencies
C19_Witness ==
    /\ run_pc = "returned"
    /\ Len(results) >= 3
    /\ stats.successful_requests > 0
    /\ stats.failed_requests > 0
    /\ \E i \in 1..(Len(stats.latencies) - 1) : stats.latencies[i] # stats.latencies[i + 1]

\* C20: run() leaves the configuration as it found it: target_url, duration
\* and concurrent_limit never change, and when run() has returned self.rps is
\* again the aggregate rate it held before the call, so that a second run()
\* would compute the worker count and the per-worker rate of the first
C20_ConfigurationRestored ==
    /\ [][config' = config /\ original_rps' = original_rps]_vars
    /\ [](Finished =>
              /\ rps = original_rps
              /\ num_workers(rps) = Len(tasks)
              /\ \A w \in Workers :
                     tasks[w].interval
                         = Rat(worker_rps(rps, num_workers(rps))[2],
                               worker_rps(rps, num_workers(rps))[1]))

\* a returned run of two workers: the rate is the aggregate one again
C20_Witness ==
    /\ run_pc = "returned"
    /\ Len(tasks) = 2
    /\ rps = original_rps
    /\ \A w \in Workers : ~RatEq(tasks[w].interval, <<rps[2], rps[1]>>)

====
